---- MODULE Spec2Model ----
(***************************************************************************)
(* Request/response pipeline of the PostCrawl node SDK: the PostCrawlClient *)
(* constructor, the three endpoint operations (search, extract,            *)
(* searchAndExtract), request validation by the zod schemas, and the       *)
(* retry / timeout / error-classification state machine of makeRequest.    *)
(* A string that the code inspects character by character (query, header   *)
(* value) is a sequence of one-character strings.                          *)
(***************************************************************************)
EXTENDS Integers, Sequences, FiniteSets, TLC

\* ------------------------------------------------------------------------
\* constants.ts
DEFAULT_TIMEOUT == 90000
DEFAULT_MAX_RETRIES == 3
DEFAULT_RETRY_DELAY == 1000
SEARCH_ENDPOINT == "/search"
EXTRACT_ENDPOINT == "/extract"
SEARCH_AND_EXTRACT_ENDPOINT == "/search-and-extract"

\* ------------------------------------------------------------------------
\* Bounds of the model
MaxRetriesOption == 2      \* largest maxRetries passed to the constructor
MaxQueryLen == 1           \* longest query string passed to an operation
MaxItems == 1              \* longest JSON array a response body holds
MaxKeyLen == 4             \* longest API key passed to the constructor

\* An optional value (undefined / null in the code) is <<>>, a present
\* value v is <<v>>.
None == <<>>
Some(v) == <<v>>

\* ------------------------------------------------------------------------
\* JavaScript operators the constructor relies on

\* a ?? d : d only when a is undefined
NullishDefault(opt, d) == IF opt = None THEN d ELSE opt[1]

\* a || d : d when a is falsy (undefined, or the number 0)
OrDefault(opt, d) == IF opt = None THEN d ELSE IF opt[1] = 0 THEN d ELSE opt[1]

\* String.prototype.startsWith
StartsWith(s, prefix) == Len(s) >= Len(prefix) /\ SubSeq(s, 1, Len(prefix)) = prefix

\* Variant used to test the properties below: the prefix is not tested
ConstructorThrows_NoPrefixTest(apiKey) ==
    IF apiKey = <<>> THEN "API key is required" ELSE ""

\* PostCrawlClient.constructor: the message of the Error it throws for an
\* API key, "" when it does not throw
ConstructorThrows(apiKey) ==
    IF apiKey = <<>> THEN "API key is required"
    ELSE IF ~StartsWith(apiKey, <<"s", "k", "_">>) THEN "API key must start with 'sk_'"
    ELSE ""

\* PostCrawlClient.constructor: the three numeric fields derived from options
ConstructTimeout(options) == OrDefault(options.timeout, DEFAULT_TIMEOUT)
ConstructMaxRetries(options) == OrDefault(options.maxRetries, DEFAULT_MAX_RETRIES)
ConstructRetryDelay(options) == OrDefault(options.retryDelay, DEFAULT_RETRY_DELAY)

\* ------------------------------------------------------------------------
\* Strings as character sequences

IsSpace(ch) == ch = " "

RECURSIVE TrimStart(_)
TrimStart(s) == IF s = <<>> THEN <<>>
                ELSE IF IsSpace(Head(s)) THEN TrimStart(Tail(s)) ELSE s

RECURSIVE TrimEnd(_)
TrimEnd(s) == IF s = <<>> THEN <<>>
              ELSE IF IsSpace(s[Len(s)]) THEN TrimEnd(SubSeq(s, 1, Len(s) - 1)) ELSE s

\* String.prototype.trim
Trim(s) == TrimEnd(TrimStart(s))

\* All sequences over S of length at most n
SeqsUpTo(S, n) == UNION { [1..k -> S] : k \in 0..n }

\* ------------------------------------------------------------------------
\* types.ts: request schemas (zod).  A parse result is the list of issues
\* together with the output data; the parse throws ZodError exactly when
\* the list is not empty.

SocialPlatformSchema == {"reddit", "tiktok"}
ResponseModeSchema == {"raw", "markdown"}

Issue(field, message) == [field |-> field, code |-> "invalid_value", message |-> message]

IndexName(i) == <<"0", "1", "2", "3">>[i]

\* Variant used to test the properties below: the array has no minimum length
PlatformsIssues_NoMin(field, arr) ==
    SelectSeq([i \in 1..Len(arr) |->
                 IF arr[i] \in SocialPlatformSchema
                 THEN Issue(<<>>, "")
                 ELSE Issue(<<field, IndexName(i)>>, "Invalid enum value")],
              LAMBDA is : is.field # <<>>)

\* z.array(SocialPlatformSchema).min(1, ...)
PlatformsIssues(field, arr) ==
    (IF Len(arr) < 1 THEN << Issue(<<field>>, "At least one social platform is required") >> ELSE <<>>)
    \o SelectSeq([i \in 1..Len(arr) |->
                    IF arr[i] \in SocialPlatformSchema
                    THEN Issue(<<>>, "")
                    ELSE Issue(<<field, IndexName(i)>>, "Invalid enum value")],
                 LAMBDA is : is.field # <<>>)

\* z.string().min(1, "Query cannot be empty").trim(): the checks run in the
\* order they were declared, each on the data left by the previous one.
QueryMinIssues(q) == IF Len(q) < 1 THEN << Issue(<<"query">>, "Query cannot be empty") >> ELSE <<>>
QueryOutput(q) == Trim(q)

\* Variant used to test the properties below: the maximum is exclusive
ResultsIssues_ExclusiveMax(n) ==
    (IF n < 1 THEN << Issue(<<"results">>, "Number must be greater than or equal to 1") >> ELSE <<>>)
    \o (IF n >= 100 THEN << Issue(<<"results">>, "Number must be less than or equal to 100") >> ELSE <<>>)

\* z.number().int().min(1).max(100)
ResultsIssues(n) ==
    (IF n < 1 THEN << Issue(<<"results">>, "Number must be greater than or equal to 1") >> ELSE <<>>)
    \o (IF n > 100 THEN << Issue(<<"results">>, "Number must be less than or equal to 100") >> ELSE <<>>)

\* z.number().int().min(1)
PageIssues(n) == IF n < 1 THEN << Issue(<<"page">>, "Number must be greater than or equal to 1") >> ELSE <<>>

\* A URL string is the sequence of its lexical parts; new URL(u) succeeds
\* when it starts with a scheme followed by ":".
Schemes == {"https", "http"}
IsUrl(u) == Len(u) >= 2 /\ u[1] \in Schemes /\ u[2] = ":"

\* Variant used to test the properties below: the array has no maximum length
UrlsIssues_NoMax(urls) ==
    (IF Len(urls) < 1 THEN << Issue(<<"urls">>, "At least one URL is required") >> ELSE <<>>)
    \o SelectSeq([i \in 1..Len(urls) |->
                    IF IsUrl(urls[i])
                    THEN Issue(<<>>, "")
                    ELSE Issue(<<"urls", IndexName(i)>>, "Invalid url")],
                 LAMBDA is : is.field # <<>>)

\* z.array(z.string().url()).min(1, ...).max(100, ...)
UrlsIssues(urls) ==
    (IF Len(urls) < 1 THEN << Issue(<<"urls">>, "At least one URL is required") >> ELSE <<>>)
    \o (IF Len(urls) > 100 THEN << Issue(<<"urls">>, "Cannot process more than 100 URLs at once") >> ELSE <<>>)
    \o SelectSeq([i \in 1..Len(urls) |->
                    IF IsUrl(urls[i])
                    THEN Issue(<<>>, "")
                    ELSE Issue(<<"urls", IndexName(i)>>, "Invalid url")],
                 LAMBDA is : is.field # <<>>)

\* z.boolean().optional().default(false) / ResponseModeSchema.optional().default("raw")
ResponseModeIssues(m) ==
    IF m # None /\ m[1] \notin ResponseModeSchema
    THEN << Issue(<<"responseMode">>, "Invalid enum value") >> ELSE <<>>

SearchRequestSchema(p) ==
    [issues |-> PlatformsIssues("socialPlatforms", p.socialPlatforms) \o QueryMinIssues(p.query)
                \o ResultsIssues(p.results) \o PageIssues(p.page),
     data |-> [socialPlatforms |-> p.socialPlatforms, query |-> QueryOutput(p.query),
               results |-> p.results, page |-> p.page]]

ExtractRequestSchema(p) ==
    [issues |-> UrlsIssues(p.urls) \o ResponseModeIssues(p.responseMode),
     data |-> [urls |-> p.urls,
               includeComments |-> NullishDefault(p.includeComments, FALSE),
               responseMode |-> NullishDefault(p.responseMode, "raw")]]

SearchAndExtractRequestSchema(p) ==
    [issues |-> PlatformsIssues("socialPlatforms", p.socialPlatforms) \o QueryMinIssues(p.query)
                \o ResultsIssues(p.results) \o PageIssues(p.page)
                \o ResponseModeIssues(p.responseMode),
     data |-> [socialPlatforms |-> p.socialPlatforms, query |-> QueryOutput(p.query),
               results |-> p.results, page |-> p.page,
               includeComments |-> NullishDefault(p.includeComments, FALSE),
               responseMode |-> NullishDefault(p.responseMode, "raw")]]

\* ------------------------------------------------------------------------
\* types.ts: type guards.  A raw payload value is its JavaScript kind,
\* whether it is falsy, and, for an object, the set of its keys.  A guard
\* evaluates to "true" or "false", or "throws" when it raises TypeError.

RawValue(kind, falsy, keys) == [kind |-> kind, falsy |-> falsy, keys |-> keys]

\* typeof raw
TypeOf(raw) == IF raw.kind = "null" THEN "object" ELSE raw.kind

\* key in raw
In(key, raw) == IF raw.kind # "object" THEN "throws"
                ELSE IF key \in raw.keys THEN "true" ELSE "false"

IsRedditPost(raw) ==
    IF raw.falsy THEN "false"
    ELSE IF TypeOf(raw) # "object" THEN "false"
    ELSE IF raw.kind = "null" THEN "false"
    ELSE In("subredditName", raw)

\* Variant used to test the properties below: one of the two keys suffices
IsTiktokPost_EitherKey(raw) ==
    IF raw.falsy THEN "false"
    ELSE IF TypeOf(raw) # "object" THEN "false"
    ELSE IF raw.kind = "null" THEN "false"
    ELSE IF In("username", raw) = "true" THEN "true"
    ELSE In("id", raw)

IsTiktokPost(raw) ==
    IF raw.falsy THEN "false"
    ELSE IF TypeOf(raw) # "object" THEN "false"
    ELSE IF raw.kind = "null" THEN "false"
    ELSE IF In("username", raw) # "true" THEN In("username", raw)
    ELSE In("id", raw)

\* ------------------------------------------------------------------------
\* client.ts: the endpoint operations up to the call of makeRequest

Operations == {"search", "extract", "searchAndExtract"}

Parse(op, p) == CASE op = "search" -> SearchRequestSchema(p)
                  [] op = "extract" -> ExtractRequestSchema(p)
                  [] op = "searchAndExtract" -> SearchAndExtractRequestSchema(p)

Endpoint(op) == CASE op = "search" -> SEARCH_ENDPOINT
                  [] op = "extract" -> EXTRACT_ENDPOINT
                  [] op = "searchAndExtract" -> SEARCH_AND_EXTRACT_ENDPOINT

\* Variant used to test the properties below: the keys of the parsed data
\* are sent as they are
ApiRequest_CamelCase(op, v) == v

\* "Convert to API format (snake_case)"
ApiRequest(op, v) ==
    CASE op = "search" ->
           [social_platforms |-> v.socialPlatforms, query |-> v.query,
            results |-> v.results, page |-> v.page]
      [] op = "extract" ->
           [urls |-> v.urls, include_comments |-> v.includeComments,
            response_mode |-> v.responseMode]
      [] op = "searchAndExtract" ->
           [social_platforms |-> v.socialPlatforms, query |-> v.query,
            results |-> v.results, page |-> v.page,
            include_comments |-> v.includeComments, response_mode |-> v.responseMode]

\* ------------------------------------------------------------------------
\* exceptions.ts: the error taxonomy.  An error value carries its class
\* name and the fields the classes declare; an error that is not an
\* instance of PostCrawlError has one of the other names.

APIErrorClasses == {"APIError", "AuthenticationError", "InsufficientCreditsError",
                    "RateLimitError", "ValidationError"}
NetworkErrorClasses == {"NetworkError", "TimeoutError"}
PostCrawlErrorClasses == {"PostCrawlError"} \cup APIErrorClasses \cup NetworkErrorClasses

ErrorValue(name, message, statusCode, retryAfter, details) ==
    [name |-> name, message |-> message, statusCode |-> statusCode,
     retryAfter |-> retryAfter, details |-> details]

NoError == ErrorValue("none", "", 0, None, <<>>)
APIError(message, statusCode) == ErrorValue("APIError", message, statusCode, None, <<>>)
AuthenticationError(message) == ErrorValue("AuthenticationError", message, 401, None, <<>>)
InsufficientCreditsError(message) == ErrorValue("InsufficientCreditsError", message, 403, None, <<>>)
RateLimitError(message, retryAfter) == ErrorValue("RateLimitError", message, 429, retryAfter, <<>>)
ValidationError(message, details) == ErrorValue("ValidationError", message, 422, None, details)
NetworkError(message) == ErrorValue("NetworkError", message, 0, None, <<>>)
TimeoutError(message) == ErrorValue("TimeoutError", message, 0, None, <<>>)
\* errors raised by the runtime, not by the SDK
RuntimeError(name) == ErrorValue(name, "", 0, None, <<>>)

\* ------------------------------------------------------------------------
\* Responses.  A body is what the server sent: a JSON array, a JSON object,
\* the JSON literal null, text that is not JSON, or no body at all (null
\* body of the fetch standard).

JsonKinds == {"array", "object", "null"}
BodyKinds == JsonKinds \cup {"text", "nobody"}
Body(kind, items) == [kind |-> kind, items |-> items, details |-> <<>>]
NoBody == Body("none", <<>>)

\* a body of which the server never sends the end: reading it does not settle
StalledBody == Body("stalled", <<>>)

\* ErrorResponse: a JSON object with error, message and optional details
ErrorBody(details) == [kind |-> "object", items |-> <<>>, details |-> details]

\* an element of the array the search endpoint answers with; imageUrl is
\* None when the element has no such key
SearchResult(imageUrl) ==
    [title |-> "Test Title", url |-> "https://example.com", snippet |-> "Test snippet",
     date |-> "Jan 1, 2024", imageUrl |-> imageUrl]

ResponseOk(status) == status >= 200 /\ status <= 299

\* Number.parseInt(s, 10) of a string of decimal digits
DigitValue(ch) == CASE ch = "0" -> 0 [] ch = "1" -> 1 [] ch = "2" -> 2 [] ch = "3" -> 3
                    [] ch = "4" -> 4 [] ch = "5" -> 5 [] ch = "6" -> 6 [] ch = "7" -> 7
                    [] ch = "8" -> 8 [] ch = "9" -> 9

RECURSIVE ParseIntAcc(_, _)
ParseIntAcc(s, acc) == IF s = <<>> THEN acc
                       ELSE ParseIntAcc(Tail(s), acc * 10 + DigitValue(Head(s)))
ParseInt(s) == ParseIntAcc(s, 0)

\* Variant used to test the properties below: the header is tested as a
\* number, so that "0" counts as absent
Truthy_AsNumber(h) == h # None /\ h[1] # <<>> /\ ParseInt(h[1]) # 0

\* a header value h is None (headers.get gives null) or Some(string);
\* `if (h)` is true for a present, non-empty string
Truthy(h) == h # None /\ h[1] # <<>>

\* Variants used to test the properties below: a missing header resets the
\* field to null; a field is written only while it is still null.
UpdateRateLimitInfo_Reset(info, headers) ==
    [limit |-> IF Truthy(headers.limit) THEN Some(ParseInt(headers.limit[1])) ELSE None,
     remaining |-> IF Truthy(headers.remaining) THEN Some(ParseInt(headers.remaining[1])) ELSE None,
     reset |-> IF Truthy(headers.reset) THEN Some(ParseInt(headers.reset[1])) ELSE None]

\* Variant used to test the properties below: the assignment of reset is
\* lost once the field holds a value, as if another continuation ran between
\* the assignments
UpdateRateLimitInfo_LosesReset(info, headers) ==
    [limit |-> IF Truthy(headers.limit) THEN Some(ParseInt(headers.limit[1])) ELSE info.limit,
     remaining |-> IF Truthy(headers.remaining) THEN Some(ParseInt(headers.remaining[1])) ELSE info.remaining,
     reset |-> IF Truthy(headers.reset) /\ info.reset = None
               THEN Some(ParseInt(headers.reset[1])) ELSE info.reset]

UpdateRateLimitInfo_FirstWins(info, headers) ==
    [limit |-> IF Truthy(headers.limit) /\ info.limit = None
               THEN Some(ParseInt(headers.limit[1])) ELSE info.limit,
     remaining |-> IF Truthy(headers.remaining) /\ info.remaining = None
                   THEN Some(ParseInt(headers.remaining[1])) ELSE info.remaining,
     reset |-> IF Truthy(headers.reset) /\ info.reset = None
               THEN Some(ParseInt(headers.reset[1])) ELSE info.reset]

\* PostCrawlClient.updateRateLimitInfo
UpdateRateLimitInfo(info, headers) ==
    [limit |-> IF Truthy(headers.limit) THEN Some(ParseInt(headers.limit[1])) ELSE info.limit,
     remaining |-> IF Truthy(headers.remaining) THEN Some(ParseInt(headers.remaining[1])) ELSE info.remaining,
     reset |-> IF Truthy(headers.reset) THEN Some(ParseInt(headers.reset[1])) ELSE info.reset]

\* Variant used to test the properties below: the 429 branch ignores the
\* Retry-After header.
ClassifyStatus_NoRetryAfter(status, message, retryAfterHeader, details) ==
    CASE status = 401 -> AuthenticationError(message)
      [] status = 403 -> InsufficientCreditsError(message)
      [] status = 422 -> ValidationError(message, details)
      [] status = 429 -> RateLimitError(message, None)
      [] OTHER -> APIError(message, status)

\* the switch of handleErrorResponse
ClassifyStatus(status, message, retryAfterHeader, details) ==
    CASE status = 401 -> AuthenticationError(message)
      [] status = 403 -> InsufficientCreditsError(message)
      [] status = 422 -> ValidationError(message, details)
      [] status = 429 -> RateLimitError(message,
                            IF Truthy(retryAfterHeader) THEN Some(ParseInt(retryAfterHeader[1])) ELSE None)
      [] OTHER -> APIError(message, status)

\* response.text() called after response.json() has consumed the body:
\* the body is unusable and the promise rejects with TypeError, unless the
\* response has no body at all, in which case the text is empty.
TextAfterJson(body) == IF body.kind = "nobody" THEN "" ELSE "throws"

\* PostCrawlClient.handleErrorResponse: the error it throws
HandleErrorResponse(response) ==
    IF response.body.kind \in JsonKinds
    THEN IF response.body.kind = "null"
         THEN RuntimeError("TypeError")      \* errorResponse.requestId of null
         ELSE ClassifyStatus(response.status,
                             IF response.body.kind = "object" THEN "body.message" ELSE "undefined",
                             response.retryAfter, response.body.details)
    ELSE IF TextAfterJson(response.body) = "throws"
         THEN RuntimeError("TypeError")
         ELSE ClassifyStatus(response.status, "HTTP status", response.retryAfter, <<>>)

\* Variants of the catch block used to test the properties below: typed
\* errors fall through to the retry branch; one retry fewer; no AbortError
\* branch.
CatchBlock_RetryTyped(error, retryCount, maxRetries) ==
    IF error.name = "AbortError"
    THEN [do |-> "throw", error |-> TimeoutError("Request timed out")]
    ELSE IF retryCount < maxRetries
    THEN [do |-> "retry", error |-> NoError]
    ELSE [do |-> "throw", error |-> NetworkError("Network error")]

CatchBlock_OffByOne(error, retryCount, maxRetries) ==
    IF error.name = "AbortError"
    THEN [do |-> "throw", error |-> TimeoutError("Request timed out")]
    ELSE IF error.name \in APIErrorClasses \cup NetworkErrorClasses
    THEN [do |-> "throw", error |-> error]
    ELSE IF retryCount + 1 < maxRetries
    THEN [do |-> "retry", error |-> NoError]
    ELSE [do |-> "throw", error |-> NetworkError("Network error")]

CatchBlock_NoAbort(error, retryCount, maxRetries) ==
    IF error.name \in APIErrorClasses \cup NetworkErrorClasses
    THEN [do |-> "throw", error |-> error]
    ELSE IF retryCount < maxRetries
    THEN [do |-> "retry", error |-> NoError]
    ELSE [do |-> "throw", error |-> NetworkError("Network error")]

\* The catch block of makeRequest: what it does with a caught error
CatchBlock(error, retryCount, maxRetries) ==
    IF error.name = "AbortError"
    THEN [do |-> "throw", error |-> TimeoutError("Request timed out")]
    ELSE IF error.name \in APIErrorClasses \cup NetworkErrorClasses
    THEN [do |-> "throw", error |-> error]
    ELSE IF retryCount < maxRetries
    THEN [do |-> "retry", error |-> NoError]
    ELSE [do |-> "throw", error |-> NetworkError("Network error")]

\* ------------------------------------------------------------------------
\* Inputs of the model

CallIds == {1, 2}          \* promises of the client that can be pending
OneCall == {1}

TimeoutOptions == {None, Some(0), Some(100)}
MaxRetriesOptions == {None} \cup { Some(n) : n \in 0..MaxRetriesOption }
RetryDelayOptions == {None, Some(0), Some(10)}
\* the constructor is given at most one of the three options, or the pair
\* of the retry tests (maxRetries with retryDelay: 10)
ClientOptions ==
    { o \in [timeout : TimeoutOptions, maxRetries : MaxRetriesOptions,
             retryDelay : RetryDelayOptions] :
        \/ Cardinality({ f \in {"timeout", "maxRetries", "retryDelay"} : o[f] # None }) <= 1
        \/ o.timeout = None /\ o.maxRetries # None /\ o.retryDelay = Some(10) }

\* time, in ms, the transport takes to answer an attempt (or to fail)
Latencies == {50, 95000}

Statuses == {200, 401, 403, 404, 422, 429, 500}
Items == {SearchResult(None), SearchResult(Some("https://example.com/image.jpg"))}
ServerDetails == << Issue(<<"query">>, "Query is required") >>
Bodies == { Body(k, <<>>) : k \in {"object", "null", "text", "nobody"} }
          \cup { ErrorBody(ServerDetails) }
          \cup { Body("array", items) : items \in SeqsUpTo(Items, MaxItems) }

\* what the server puts in a body: field-level details come with a 422,
\* search results with a success status
ServerSends(status, body) ==
    /\ body.details # <<>> => status = 422
    /\ body.items # <<>> => ResponseOk(status)

NoRateLimitHeaders == [limit |-> None, remaining |-> None, reset |-> None]
RateLimitHeaders ==
    { NoRateLimitHeaders,
      [limit |-> Some(<<"2", "0", "0">>), remaining |-> Some(<<"1", "5", "0">>),
       reset |-> Some(<<"1", "7", "0", "0">>)] }
\* every combination of absent and present headers, the value 0 included
RichRateLimitHeaders ==
    [limit : {None, Some(<<"0">>), Some(<<"2", "0", "0">>)},
     remaining : {None, Some(<<"0">>), Some(<<"1", "5", "0">>)},
     reset : {None, Some(<<"0">>), Some(<<"1", "7", "0", "0">>)}]
RetryAfterHeaders(status) == IF status = 429 THEN {None, Some(<<"6", "0">>)} ELSE {None}

QueryChars == {" ", "a"}
Queries == SeqsUpTo(QueryChars, MaxQueryLen)
GoodUrl == <<"https", ":", "//reddit.com/r/test">>
BadUrl == <<"not-a-valid-url">>

SearchParams == [socialPlatforms : {<<>>, <<"reddit">>}, query : Queries,
                 results : {0, 10, 101}, page : {0, 1}]
\* the opaque comment-filter object of the tests: { min_score: 10, max_depth: 2 }
FilterConfig == [min_score |-> 10, max_depth |-> 2]
ExtractParams == [urls : {<<>>, <<GoodUrl>>, <<BadUrl>>, <<GoodUrl, BadUrl>>},
                  includeComments : {Some(TRUE)}, responseMode : {None},
                  commentFilterConfig : {None, Some(FilterConfig)}]
SearchAndExtractParams == [socialPlatforms : {<<>>, <<"reddit">>}, query : {<<>>, <<"a">>},
                           results : {0, 10}, page : {1},
                           includeComments : {None}, responseMode : {None, Some("xml")},
                           commentFilterConfig : {None, Some(FilterConfig)}]
\* inputs of the calls that run concurrently on one client
ConcurrentOptions == [timeout |-> None, maxRetries |-> Some(1), retryDelay |-> Some(10)]
ConcurrentSearchParams == [socialPlatforms : {<<>>, <<"reddit">>}, query : {<<"a">>},
                           results : {10}, page : {1}]
ConcurrentStatuses == {200, 401}
ConcurrentBodies == { Body("array", <<>>), Body("object", <<>>), Body("text", <<>>) }
ConcurrentHeaders ==
    { NoRateLimitHeaders,
      [limit |-> Some(<<"2", "0", "0">>), remaining |-> Some(<<"1", "5", "0">>),
       reset |-> Some(<<"1", "7", "0", "0">>)],
      [limit |-> None, remaining |-> Some(<<"0">>), reset |-> None] }
\* two responses that carry the three headers, with different values
AtomicHeaders ==
    { [limit |-> Some(<<"2", "0", "0">>), remaining |-> Some(<<"1", "5", "0">>),
       reset |-> Some(<<"1", "7", "0", "0">>)],
      [limit |-> Some(<<"6", "0">>), remaining |-> Some(<<"0">>),
       reset |-> Some(<<"2", "0", "0">>)] }
\* a client with a timeout of 100 ms, and a server that may stop sending
\* after the response headers
FairOptions == [timeout |-> Some(100), maxRetries |-> None, retryDelay |-> None]
FairStatuses == {200, 401}
FairBodies == { Body("array", <<>>), Body("object", <<>>), StalledBody }
\* inputs of the calls that exercise the rate-limit headers
RateLimitOptions == [timeout |-> None, maxRetries |-> Some(1), retryDelay |-> None]
RateLimitStatuses == {200, 401}
RateLimitBodies == { Body("array", <<>>), Body("object", <<>>), Body("text", <<>>) }

\* inputs of the calls that exercise the request schemas: the limits of
\* every numeric rule and of the URL list
OtherUrl == <<"http", ":", "//www.tiktok.com/@user/video/1">>
RelativeUrl == <<"/r/test">>
UrlListLengths == {1, 2, 100, 101}
ValidationUrlLists ==
    { <<>>, <<BadUrl>>, <<GoodUrl, RelativeUrl>>, <<BadUrl, OtherUrl>> }
    \cup { [i \in 1..n |-> IF i = 2 THEN OtherUrl ELSE GoodUrl] : n \in UrlListLengths }
    \cup { [i \in 1..100 |-> IF i = 3 THEN BadUrl ELSE GoodUrl] }
ValidationSearchParams ==
    [socialPlatforms : {<<>>, <<"reddit">>}, query : {<<>>, <<"a">>, <<" ", "a", " ">>},
     results : {0, 1, 100, 101}, page : {-1, 0, 1}]
ValidationExtractParams ==
    [urls : ValidationUrlLists, includeComments : {None, Some(TRUE)},
     responseMode : {None, Some("markdown"), Some("xml")}, commentFilterConfig : {None}]
ValidationSearchAndExtractParams ==
    [socialPlatforms : {<<>>, <<"reddit">>}, query : {<<"a">>},
     results : {0, 1, 100, 101}, page : {0, 1},
     includeComments : {None}, responseMode : {None}, commentFilterConfig : {None}]
ValidationParamsOf(op) == CASE op = "search" -> ValidationSearchParams
                            [] op = "extract" -> ValidationExtractParams
                            [] op = "searchAndExtract" -> ValidationSearchAndExtractParams
ValidationStatuses == {200, 401}
ValidationBodies == { Body("array", <<>>), Body("object", <<>>) }

\* API keys handed to the constructor
KeyChars == {"s", "k", "_", "x"}
ApiKeys == SeqsUpTo(KeyChars, MaxKeyLen)
TestKey == <<"s", "k", "_", "x">>

\* raw payload values handed to the type guards
PayloadKeys == {"subredditName", "username", "id", "hashtags", "title"}
RawValues ==
    { RawValue(k, TRUE, {}) : k \in {"undefined", "null", "boolean", "number", "string"} }
    \cup { RawValue(k, FALSE, {}) : k \in {"boolean", "number", "string"} }
    \cup { RawValue("object", FALSE, keys) : keys \in SUBSET PayloadKeys }

ParamsOf(op) == CASE op = "search" -> SearchParams
                  [] op = "extract" -> ExtractParams
                  [] op = "searchAndExtract" -> SearchAndExtractParams

\* ------------------------------------------------------------------------
\* State

VARIABLES
    options,          \* the options the client was constructed with
    timeout,          \* this.timeout
    maxRetries,       \* this.maxRetries
    retryDelay,       \* this.retryDelay
    rateLimitInfo,    \* this.rateLimitInfo
    lastCarried,      \* per header: the value of the response processed last
                      \*   among those that carried the header (None: none yet)
    raw,              \* the value handed to the type guards
    verdict,          \* what isRedditPost / isTiktokPost answered ("": not called)
    apiKey,           \* options.apiKey given to the constructor
    construction,     \* "pending", "constructed", or the message of the Error
                      \*   the constructor threw
    pc,               \* per call: where the async function is suspended
    request,          \* per call: None, or Some([op, params]) the caller passed
    args,             \* per call: <<>> or <<arguments of makeRequest>>
    retryCount,       \* per call: retryCount of the running makeRequest
    timeoutId,        \* per call: None, or Some(delay) of the armed abort timer
    latency,          \* per call: time the attempt in flight takes
    response,         \* per call: the response whose body is being read
    outcome,          \* per call: how the promise settled
    fetchCalls,       \* per call: the requests passed to fetch, in order
    transportFailures,\* per call: attempts in which fetch rejected (not abort)
    responsesReceived,\* per call: attempts in which fetch resolved
    errorResponseAt,  \* per call: number of the attempt that got a non-2xx
                      \*   response with a JSON object body (0: none)
    abortedAt,        \* per call: number of the attempt the timer aborted
    waited            \* per call: total backoff delay waited, in ms

clientVars == <<options, timeout, maxRetries, retryDelay>>
callVars == <<pc, request, args, retryCount, timeoutId, latency, response, outcome>>
historyVars == <<fetchCalls, transportFailures, responsesReceived, errorResponseAt,
                 abortedAt, waited>>
guardVars == <<raw, verdict, apiKey, construction>>
vars == <<clientVars, guardVars, rateLimitInfo, lastCarried, callVars, historyVars>>

NoResponse == [status |-> 0, headers |-> NoRateLimitHeaders, retryAfter |-> None, body |-> NoBody]
Pending == [state |-> "pending", value |-> NoBody, error |-> NoError]
Resolved(value) == [state |-> "resolved", value |-> value, error |-> NoError]
Rejected(error) == [state |-> "rejected", value |-> NoBody, error |-> error]

\* the client right after `new PostCrawlClient(options)`, no call made yet
NoVerdict == [reddit |-> "", tiktok |-> ""]
NoRateLimitInfo == [limit |-> None, remaining |-> None, reset |-> None]
InitWith(opts) ==
    /\ raw = RawValue("undefined", TRUE, {})
    /\ verdict = NoVerdict
    /\ apiKey = TestKey
    /\ construction = "constructed"
    /\ lastCarried = NoRateLimitHeaders
    /\ options = opts
    /\ timeout = ConstructTimeout(opts)
    /\ maxRetries = ConstructMaxRetries(opts)
    /\ retryDelay = ConstructRetryDelay(opts)
    /\ rateLimitInfo = [limit |-> None, remaining |-> None, reset |-> None]
    /\ pc = [c \in CallIds |-> "idle"]
    /\ request = [c \in CallIds |-> None]
    /\ args = [c \in CallIds |-> <<>>]
    /\ retryCount = [c \in CallIds |-> 0]
    /\ timeoutId = [c \in CallIds |-> None]
    /\ latency = [c \in CallIds |-> 0]
    /\ response = [c \in CallIds |-> NoResponse]
    /\ outcome = [c \in CallIds |-> Pending]
    /\ fetchCalls = [c \in CallIds |-> <<>>]
    /\ transportFailures = [c \in CallIds |-> 0]
    /\ responsesReceived = [c \in CallIds |-> 0]
    /\ errorResponseAt = [c \in CallIds |-> 0]
    /\ abortedAt = [c \in CallIds |-> 0]
    /\ waited = [c \in CallIds |-> 0]

Init == \E opts \in ClientOptions : InitWith(opts)

\* ------------------------------------------------------------------------
\* makeRequest

\* Head of makeRequest up to `await fetch(...)`: a fresh AbortController,
\* the abort timer armed with this.timeout, and the request handed to fetch.
StartAttempt(c, a, rc) ==
    /\ args' = [args EXCEPT ![c] = <<a>>]
    /\ retryCount' = [retryCount EXCEPT ![c] = rc]
    /\ timeoutId' = [timeoutId EXCEPT ![c] = Some(timeout)]
    /\ \E lat \in Latencies : latency' = [latency EXCEPT ![c] = lat]
    /\ fetchCalls' = [fetchCalls EXCEPT ![c] =
                        Append(@, [method |-> a.method, endpoint |-> a.endpoint, body |-> a.body])]
    /\ pc' = [pc EXCEPT ![c] = "fetch"]

\* Variant used to test the properties below: the catch block leaves the
\* timer armed
Caught_NoClear(c, error) ==
    LET d == CatchBlock(error, retryCount[c], maxRetries) IN
    /\ timeoutId' = timeoutId
    /\ IF d.do = "retry"
       THEN /\ pc' = [pc EXCEPT ![c] = "backoff"]
            /\ outcome' = outcome
       ELSE /\ pc' = [pc EXCEPT ![c] = "done"]
            /\ outcome' = [outcome EXCEPT ![c] = Rejected(d.error)]

\* The catch block runs with `error`: clearTimeout, then rethrow, give up,
\* or start the backoff wait.
Caught(c, error) ==
    LET d == CatchBlock(error, retryCount[c], maxRetries) IN
    /\ timeoutId' = [timeoutId EXCEPT ![c] = None]
    /\ IF d.do = "retry"
       THEN /\ pc' = [pc EXCEPT ![c] = "backoff"]
            /\ outcome' = outcome
       ELSE /\ pc' = [pc EXCEPT ![c] = "done"]
            /\ outcome' = [outcome EXCEPT ![c] = Rejected(d.error)]

\* search / extract / searchAndExtract are called: validation, conversion
\* to the API format, and the first attempt of makeRequest.
InvokeWith(c, op, p) ==
    /\ pc[c] = "idle"
    /\ LET parsed == Parse(op, p) IN
         /\ request' = [request EXCEPT ![c] = Some([op |-> op, params |-> p])]
         /\ IF parsed.issues # <<>>
            THEN /\ pc' = [pc EXCEPT ![c] = "done"]
                 /\ outcome' = [outcome EXCEPT ![c] =
                       Rejected(ValidationError("Invalid request parameters", parsed.issues))]
                 /\ UNCHANGED <<args, retryCount, timeoutId, latency, fetchCalls>>
            ELSE /\ StartAttempt(c, [method |-> "POST", endpoint |-> Endpoint(op),
                                     body |-> ApiRequest(op, parsed.data)], 0)
                 /\ outcome' = outcome
    /\ UNCHANGED <<clientVars, guardVars, rateLimitInfo, lastCarried, response, transportFailures,
                   responsesReceived, errorResponseAt, abortedAt, waited>>

Invoke(c) == \E op \in Operations : \E p \in ParamsOf(op) : InvokeWith(c, op, p)

\* fetch resolves with a response before the timer fires: clearTimeout,
\* updateRateLimitInfo, then the body is read (response.json() directly, or
\* inside handleErrorResponse when the status is not ok).
FetchResolveFrom(c, statuses, headerChoices, bodies) ==
    /\ pc[c] = "fetch"
    /\ latency[c] < timeoutId[c][1]
    /\ \E status \in statuses, headers \in headerChoices :
       \E body \in { b \in bodies : ServerSends(status, b) } :
       \E retryAfter \in RetryAfterHeaders(status) :
         /\ timeoutId' = [timeoutId EXCEPT ![c] = None]
         /\ rateLimitInfo' = UpdateRateLimitInfo(rateLimitInfo, headers)
         /\ lastCarried' = [f \in DOMAIN lastCarried |->
                               IF headers[f] # None THEN headers[f] ELSE lastCarried[f]]
         /\ response' = [response EXCEPT ![c] =
                           [status |-> status, headers |-> headers,
                            retryAfter |-> retryAfter, body |-> body]]
         /\ pc' = [pc EXCEPT ![c] = IF ResponseOk(status) THEN "json" ELSE "errorJson"]
         /\ errorResponseAt' = [errorResponseAt EXCEPT ![c] =
                                  IF ~ResponseOk(status) /\ body.kind = "object"
                                  THEN Len(fetchCalls[c]) ELSE @]
    /\ responsesReceived' = [responsesReceived EXCEPT ![c] = @ + 1]
    /\ UNCHANGED <<clientVars, guardVars, request, args, retryCount, latency, outcome, fetchCalls,
                   transportFailures, abortedAt, waited>>

FetchResolveWith(c, headerChoices) == FetchResolveFrom(c, Statuses, headerChoices, Bodies)

FetchResolve(c) == FetchResolveWith(c, RateLimitHeaders)

\* Variant used to test the properties below: the catch block clears the
\* rate-limit information
FetchReject_ClearsInfo(c) ==
    /\ pc[c] = "fetch"
    /\ latency[c] < timeoutId[c][1]
    /\ Caught(c, RuntimeError("Error"))
    /\ transportFailures' = [transportFailures EXCEPT ![c] = @ + 1]
    /\ rateLimitInfo' = [limit |-> None, remaining |-> None, reset |-> None]
    /\ UNCHANGED <<clientVars, guardVars, lastCarried, request, args, retryCount, latency, response,
                   fetchCalls, responsesReceived, errorResponseAt, abortedAt, waited>>

\* fetch rejects with a transport error (connection reset, DNS failure ...)
FetchReject(c) ==
    /\ pc[c] = "fetch"
    /\ latency[c] < timeoutId[c][1]
    /\ Caught(c, RuntimeError("Error"))
    /\ transportFailures' = [transportFailures EXCEPT ![c] = @ + 1]
    /\ UNCHANGED <<clientVars, guardVars, rateLimitInfo, lastCarried, request, args, retryCount, latency, response,
                   fetchCalls, responsesReceived, errorResponseAt, abortedAt, waited>>

\* Variant used to test the properties below: one AbortController shared by
\* the calls of the client, so that the timer of a call aborts every
\* attempt in flight
TimerFire_SharedController(c) ==
    /\ pc[c] = "fetch"
    /\ timeoutId[c] # None
    /\ latency[c] >= timeoutId[c][1]
    /\ pc' = [d \in CallIds |-> IF pc[d] = "fetch" THEN "done" ELSE pc[d]]
    /\ outcome' = [d \in CallIds |-> IF pc[d] = "fetch"
                                      THEN Rejected(TimeoutError("Request timed out"))
                                      ELSE outcome[d]]
    /\ timeoutId' = [d \in CallIds |-> IF pc[d] = "fetch" THEN None ELSE timeoutId[d]]
    /\ abortedAt' = [abortedAt EXCEPT ![c] = Len(fetchCalls[c])]
    /\ UNCHANGED <<clientVars, guardVars, rateLimitInfo, lastCarried, request, args, retryCount, latency, response,
                   fetchCalls, transportFailures, responsesReceived, errorResponseAt, waited>>

\* the abort timer fires while fetch is pending: controller.abort(), fetch
\* rejects with an error named AbortError
TimerFire(c) ==
    /\ pc[c] = "fetch"
    /\ timeoutId[c] # None
    /\ latency[c] >= timeoutId[c][1]
    /\ Caught(c, RuntimeError("AbortError"))
    /\ abortedAt' = [abortedAt EXCEPT ![c] = Len(fetchCalls[c])]
    /\ UNCHANGED <<clientVars, guardVars, rateLimitInfo, lastCarried, request, args, retryCount, latency, response,
                   fetchCalls, transportFailures, responsesReceived, errorResponseAt, waited>>

\* `return (await response.json()) as T` of an ok response settles
JsonDone(c) ==
    /\ pc[c] = "json"
    /\ response[c].body.kind # "stalled"
    /\ IF response[c].body.kind \in JsonKinds
       THEN /\ pc' = [pc EXCEPT ![c] = "done"]
            /\ outcome' = [outcome EXCEPT ![c] = Resolved(response[c].body)]
            /\ timeoutId' = timeoutId
       ELSE Caught(c, RuntimeError("SyntaxError"))
    /\ UNCHANGED <<clientVars, guardVars, rateLimitInfo, lastCarried, request, args, retryCount, latency, response, historyVars>>

\* `await this.handleErrorResponse(response)` settles (it always throws)
ErrorJsonDone(c) ==
    /\ pc[c] = "errorJson"
    /\ response[c].body.kind # "stalled"
    /\ Caught(c, HandleErrorResponse(response[c]))
    /\ UNCHANGED <<clientVars, guardVars, rateLimitInfo, lastCarried, request, args, retryCount, latency, response, historyVars>>

\* the backoff timer of the catch block fires: makeRequest calls itself
BackoffDone(c) ==
    /\ pc[c] = "backoff"
    /\ waited' = [waited EXCEPT ![c] = @ + retryDelay * (retryCount[c] + 1)]
    /\ StartAttempt(c, args[c][1], retryCount[c] + 1)
    /\ UNCHANGED <<clientVars, guardVars, rateLimitInfo, lastCarried, request, response, outcome, transportFailures,
                   responsesReceived, errorResponseAt, abortedAt>>

\* the caller has observed the settled promise; the slot is free for the
\* next call on the same client
Return(c) ==
    /\ pc[c] = "done"
    /\ pc' = [pc EXCEPT ![c] = "idle"]
    /\ request' = [request EXCEPT ![c] = None]
    /\ args' = [args EXCEPT ![c] = <<>>]
    /\ retryCount' = [retryCount EXCEPT ![c] = 0]
    /\ latency' = [latency EXCEPT ![c] = 0]
    /\ response' = [response EXCEPT ![c] = NoResponse]
    /\ outcome' = [outcome EXCEPT ![c] = Pending]
    /\ fetchCalls' = [fetchCalls EXCEPT ![c] = <<>>]
    /\ transportFailures' = [transportFailures EXCEPT ![c] = 0]
    /\ responsesReceived' = [responsesReceived EXCEPT ![c] = 0]
    /\ errorResponseAt' = [errorResponseAt EXCEPT ![c] = 0]
    /\ abortedAt' = [abortedAt EXCEPT ![c] = 0]
    /\ waited' = [waited EXCEPT ![c] = 0]
    /\ UNCHANGED <<clientVars, guardVars, rateLimitInfo, lastCarried, timeoutId>>

Next ==
    \/ \E c \in OneCall : Invoke(c)
    \/ \E c \in OneCall : FetchResolve(c)
    \/ \E c \in OneCall : FetchReject(c)
    \/ \E c \in OneCall : TimerFire(c)
    \/ \E c \in OneCall : JsonDone(c)
    \/ \E c \in OneCall : ErrorJsonDone(c)
    \/ \E c \in OneCall : BackoffDone(c)
    \/ \E c \in OneCall : Return(c)

Spec == Init /\ [][Next]_vars

\* One call at a time on a client with maxRetries 1, the responses carrying
\* every combination of rate-limit headers.
InitRateLimit == InitWith(RateLimitOptions)

NextRateLimit ==
    \/ \E c \in OneCall : Invoke(c)
    \/ \E c \in OneCall : FetchResolveFrom(c, RateLimitStatuses, RichRateLimitHeaders, RateLimitBodies)
    \/ \E c \in OneCall : FetchReject(c)
    \/ \E c \in OneCall : TimerFire(c)
    \/ \E c \in OneCall : JsonDone(c)
    \/ \E c \in OneCall : ErrorJsonDone(c)
    \/ \E c \in OneCall : BackoffDone(c)
    \/ \E c \in OneCall : Return(c)

SpecRateLimit == InitRateLimit /\ [][NextRateLimit]_vars

\* One call at a time, its parameters at the limits of the request schemas.
InitValidation == InitWith(RateLimitOptions)

NextValidation ==
    \/ \E c \in OneCall : \E op \in Operations : \E p \in ValidationParamsOf(op) : InvokeWith(c, op, p)
    \/ \E c \in OneCall : FetchResolveFrom(c, ValidationStatuses, {NoRateLimitHeaders}, ValidationBodies)
    \/ \E c \in OneCall : FetchReject(c)
    \/ \E c \in OneCall : TimerFire(c)
    \/ \E c \in OneCall : JsonDone(c)
    \/ \E c \in OneCall : ErrorJsonDone(c)
    \/ \E c \in OneCall : BackoffDone(c)
    \/ \E c \in OneCall : Return(c)

SpecValidation == InitValidation /\ [][NextValidation]_vars

\* Two calls in flight on the same client: their continuations interleave
\* in every order the event loop allows.
InitConcurrent == InitWith(ConcurrentOptions)

NextConcurrent ==
    \/ \E c \in CallIds : \E p \in ConcurrentSearchParams : InvokeWith(c, "search", p)
    \/ \E c \in CallIds : FetchResolveFrom(c, ConcurrentStatuses, ConcurrentHeaders, ConcurrentBodies)
    \/ \E c \in CallIds : FetchReject(c)
    \/ \E c \in CallIds : TimerFire(c)
    \/ \E c \in CallIds : JsonDone(c)
    \/ \E c \in CallIds : ErrorJsonDone(c)
    \/ \E c \in CallIds : BackoffDone(c)
    \/ \E c \in CallIds : Return(c)

SpecConcurrent == InitConcurrent /\ [][NextConcurrent]_vars

\* Two calls in flight on the same client, every response carrying the
\* three rate-limit headers.
InitAtomicUpdate == InitWith(ConcurrentOptions)

NextAtomicUpdate ==
    \/ \E c \in CallIds : \E p \in ConcurrentSearchParams : InvokeWith(c, "search", p)
    \/ \E c \in CallIds : FetchResolveFrom(c, ConcurrentStatuses, AtomicHeaders, ConcurrentBodies)
    \/ \E c \in CallIds : FetchReject(c)
    \/ \E c \in CallIds : TimerFire(c)
    \/ \E c \in CallIds : JsonDone(c)
    \/ \E c \in CallIds : ErrorJsonDone(c)
    \/ \E c \in CallIds : BackoffDone(c)
    \/ \E c \in CallIds : Return(c)

SpecAtomicUpdate == InitAtomicUpdate /\ [][NextAtomicUpdate]_vars

\* One call at a time on a client with a timeout, the server free to stall
\* after the response headers. The event loop runs every continuation that
\* is ready and fires every timer that is due: a pending fetch ends (it
\* resolves, rejects or is aborted by the timer), a body read that can
\* settle settles, and a backoff wait ends.
InitFair == InitWith(FairOptions)

FetchEnds(c) ==
    \/ FetchResolveFrom(c, FairStatuses, {NoRateLimitHeaders}, FairBodies)
    \/ FetchReject(c)
    \/ TimerFire(c)

NextFair ==
    \/ \E c \in OneCall : Invoke(c)
    \/ \E c \in OneCall : FetchResolveFrom(c, FairStatuses, {NoRateLimitHeaders}, FairBodies)
    \/ \E c \in OneCall : FetchReject(c)
    \/ \E c \in OneCall : TimerFire(c)
    \/ \E c \in OneCall : JsonDone(c)
    \/ \E c \in OneCall : ErrorJsonDone(c)
    \/ \E c \in OneCall : BackoffDone(c)
    \/ \E c \in OneCall : Return(c)

SpecFair ==
    /\ InitFair
    /\ [][NextFair]_vars
    /\ \A c \in OneCall :
         /\ WF_vars(FetchEnds(c))
         /\ WF_vars(JsonDone(c))
         /\ WF_vars(ErrorJsonDone(c))
         /\ WF_vars(BackoffDone(c))

\* The type guards applied to a raw payload value.
InitTypeGuards ==
    /\ \E r \in RawValues : raw = r
    /\ verdict = NoVerdict
    /\ apiKey = TestKey
    /\ construction = "constructed"
    /\ lastCarried = NoRateLimitHeaders
    /\ options = [timeout |-> None, maxRetries |-> None, retryDelay |-> None]
    /\ timeout = ConstructTimeout(options)
    /\ maxRetries = ConstructMaxRetries(options)
    /\ retryDelay = ConstructRetryDelay(options)
    /\ rateLimitInfo = [limit |-> None, remaining |-> None, reset |-> None]
    /\ pc = [c \in CallIds |-> "idle"]
    /\ request = [c \in CallIds |-> None]
    /\ args = [c \in CallIds |-> <<>>]
    /\ retryCount = [c \in CallIds |-> 0]
    /\ timeoutId = [c \in CallIds |-> None]
    /\ latency = [c \in CallIds |-> 0]
    /\ response = [c \in CallIds |-> NoResponse]
    /\ outcome = [c \in CallIds |-> Pending]
    /\ fetchCalls = [c \in CallIds |-> <<>>]
    /\ transportFailures = [c \in CallIds |-> 0]
    /\ responsesReceived = [c \in CallIds |-> 0]
    /\ errorResponseAt = [c \in CallIds |-> 0]
    /\ abortedAt = [c \in CallIds |-> 0]
    /\ waited = [c \in CallIds |-> 0]

CallIsRedditPost ==
    /\ verdict.reddit = ""
    /\ verdict' = [verdict EXCEPT !.reddit = IsRedditPost(raw)]
    /\ UNCHANGED <<clientVars, raw, apiKey, construction, rateLimitInfo, lastCarried, callVars, historyVars>>

CallIsTiktokPost ==
    /\ verdict.tiktok = ""
    /\ verdict' = [verdict EXCEPT !.tiktok = IsTiktokPost(raw)]
    /\ UNCHANGED <<clientVars, raw, apiKey, construction, rateLimitInfo, lastCarried, callVars, historyVars>>

NextTypeGuards == CallIsRedditPost \/ CallIsTiktokPost

SpecTypeGuards == InitTypeGuards /\ [][NextTypeGuards]_vars

\* `new PostCrawlClient(options)`.  Before the constructor has run there is
\* no client object: its fields hold the placeholder values below.
NoOptions == [timeout |-> None, maxRetries |-> None, retryDelay |-> None]
Unallocated == [limit |-> Some(-1), remaining |-> Some(-1), reset |-> Some(-1)]

InitConstruct ==
    /\ \E key \in ApiKeys : apiKey = key
    /\ construction = "pending"
    /\ raw = RawValue("undefined", TRUE, {})
    /\ verdict = NoVerdict
    /\ lastCarried = NoRateLimitHeaders
    /\ options = NoOptions
    /\ timeout = 0
    /\ maxRetries = 0
    /\ retryDelay = 0
    /\ rateLimitInfo = Unallocated
    /\ pc = [c \in CallIds |-> "idle"]
    /\ request = [c \in CallIds |-> None]
    /\ args = [c \in CallIds |-> <<>>]
    /\ retryCount = [c \in CallIds |-> 0]
    /\ timeoutId = [c \in CallIds |-> None]
    /\ latency = [c \in CallIds |-> 0]
    /\ response = [c \in CallIds |-> NoResponse]
    /\ outcome = [c \in CallIds |-> Pending]
    /\ fetchCalls = [c \in CallIds |-> <<>>]
    /\ transportFailures = [c \in CallIds |-> 0]
    /\ responsesReceived = [c \in CallIds |-> 0]
    /\ errorResponseAt = [c \in CallIds |-> 0]
    /\ abortedAt = [c \in CallIds |-> 0]
    /\ waited = [c \in CallIds |-> 0]

\* the field initialiser of rateLimitInfo, then the body of the constructor
Construct ==
    /\ construction = "pending"
    /\ IF ConstructorThrows(apiKey) # ""
       THEN /\ construction' = ConstructorThrows(apiKey)
            /\ UNCHANGED <<timeout, maxRetries, retryDelay, rateLimitInfo>>
       ELSE /\ construction' = "constructed"
            /\ rateLimitInfo' = NoRateLimitInfo
            /\ timeout' = ConstructTimeout(options)
            /\ maxRetries' = ConstructMaxRetries(options)
            /\ retryDelay' = ConstructRetryDelay(options)
    /\ UNCHANGED <<options, apiKey, raw, verdict, lastCarried, callVars, historyVars>>

NextConstruct == Construct

SpecConstruct == InitConstruct /\ [][NextConstruct]_vars

TypeOK ==
    /\ options \in ClientOptions
    /\ \A c \in CallIds : pc[c] \in {"idle", "fetch", "json", "errorJson", "backoff", "done"}

\* ------------------------------------------------------------------------
\* Properties

Settled(c) == pc[c] = "done"
RejectedWith(c, name) == Settled(c) /\ outcome[c].state = "rejected" /\ outcome[c].error.name = name
FetchCount(c) == Len(fetchCalls[c])

\* the error class section 4.3 of the specification assigns to a status
ExpectedErrorName(status) ==
    CASE status = 401 -> "AuthenticationError"
      [] status = 403 -> "InsufficientCreditsError"
      [] status = 422 -> "ValidationError"
      [] status = 429 -> "RateLimitError"
      [] OTHER -> "APIError"

C2_Claim ==
    \A c \in CallIds :
        ( /\ options.maxRetries # None
          /\ Settled(c)
          /\ FetchCount(c) > 0
          /\ transportFailures[c] = FetchCount(c) )
        => /\ RejectedWith(c, "NetworkError")
           /\ FetchCount(c) = options.maxRetries[1] + 1

\* C3: a call never gives up while it has seen at most maxRetries transport
\* failures and nothing else; and when the attempt after k transport
\* failures is answered by a 200 with a JSON array, the call resolves with
\* that array after exactly k + 1 fetch invocations.
C3_RetryThenSuccess ==
    \A c \in CallIds :
        /\ ( /\ Settled(c)
             /\ FetchCount(c) > 0
             /\ transportFailures[c] = FetchCount(c) )
           => transportFailures[c] > maxRetries
        /\ ( /\ responsesReceived[c] = 1
             /\ response[c].status = 200
             /\ response[c].body.kind = "array" )
           => /\ pc[c] \in {"json", "done"}
              /\ FetchCount(c) = transportFailures[c] + 1
              /\ transportFailures[c] <= maxRetries
              /\ Settled(c) => /\ outcome[c].state = "resolved"
                                /\ outcome[c].value = response[c].body

\* C3 witness: [transport failure, transport failure, 200 with an empty
\* array] has resolved with the empty list after three fetch invocations.
C3_Witness ==
    /\ Settled(1)
    /\ outcome[1] = Resolved(Body("array", <<>>))
    /\ transportFailures[1] = 2
    /\ FetchCount(1) = 3

\* C4 (as claimed): once an attempt of a call has received an HTTP
\* response, no step invokes fetch again for that call.
C4_Claim ==
    [][ \A c \in CallIds :
          responsesReceived[c] > 0 => Len(fetchCalls'[c]) <= Len(fetchCalls[c]) ]_vars

\* C5: once the abort timer has fired during an attempt, the call is
\* rejected with TimeoutError and fetch is not invoked again: the number of
\* fetch invocations stays the number of the aborted attempt.
C5_TimeoutIsTerminal ==
    \A c \in CallIds :
        abortedAt[c] # 0 =>
            /\ RejectedWith(c, "TimeoutError")
            /\ FetchCount(c) = abortedAt[c]

\* C5 witness: the first attempt was aborted while retries remained.
C5_Witness ==
    /\ abortedAt[1] = 1
    /\ retryCount[1] < maxRetries
    /\ RejectedWith(1, "TimeoutError")
    /\ FetchCount(1) = 1

\* C6 (as claimed): the last response a call received is non-2xx with a body
\* that is not JSON: the call only reads the body and then rejects with the
\* error class of the status, carrying that status and the generic message;
\* it neither waits for a retry nor invokes fetch again.
C6_Claim ==
    \A c \in CallIds :
        ( /\ response[c].status # 0
          /\ ~ResponseOk(response[c].status)
          /\ response[c].body.kind \in {"text", "nobody"} )
        => /\ pc[c] \in {"errorJson", "done"}
           /\ Settled(c) =>
                 /\ RejectedWith(c, ExpectedErrorName(response[c].status))
                 /\ outcome[c].error.statusCode = response[c].status
                 /\ outcome[c].error.message = "HTTP status"

Taxonomy == {"ValidationError", "AuthenticationError", "InsufficientCreditsError",
             "RateLimitError", "APIError", "NetworkError", "TimeoutError"}

\* C7 (as claimed): a settled call has either resolved with a list or
\* rejected with an error of the taxonomy.
C7_Claim ==
    \A c \in CallIds :
        Settled(c) =>
            \/ outcome[c].state = "resolved" /\ outcome[c].value.kind = "array"
            \/ outcome[c].state = "rejected" /\ outcome[c].error.name \in Taxonomy

\* the inputs of the model that break a rule of the request schemas: empty
\* platform set, query of length zero, result count outside 1..100, page
\* below 1, empty URL list, a string that is not an absolute URL, a
\* response mode outside the enum
BreaksSchema(r) ==
    IF r.op = "extract"
    THEN \/ r.params.urls = <<>>
         \/ \E i \in 1..Len(r.params.urls) : r.params.urls[i] = BadUrl
    ELSE \/ r.params.socialPlatforms = <<>>
         \/ r.params.query = <<>>
         \/ r.params.results < 1
         \/ r.params.results > 100
         \/ r.params.page < 1
         \/ r.op = "searchAndExtract" /\ r.params.responseMode = Some("xml")

\* C8: a call whose input breaks a schema rule (an empty platform set in
\* particular) is rejected with ValidationError without makeRequest being
\* entered: fetch is invoked zero times and no timer is armed.
C8_ValidationBeforeNetwork ==
    \A c \in CallIds :
        (request[c] # None /\ BreaksSchema(request[c][1]))
        => /\ RejectedWith(c, "ValidationError")
           /\ outcome[c].error.details # <<>>
           /\ FetchCount(c) = 0
           /\ args[c] = <<>>
           /\ timeoutId[c] = None

\* C8 witness: search with an empty platform set and otherwise valid
\* parameters has been rejected with no fetch invocation.
C8_Witness ==
    /\ request[1] = Some([op |-> "search",
                          params |-> [socialPlatforms |-> <<>>, query |-> <<"a">>,
                                      results |-> 10, page |-> 1]])
    /\ RejectedWith(1, "ValidationError")
    /\ FetchCount(1) = 0

\* C9 (as claimed): a search or searchAndExtract call whose query is empty
\* after trimming is rejected with ValidationError without any fetch
\* invocation, and no request body sent to these endpoints has an empty
\* query.
C9_Claim ==
    \A c \in CallIds :
        /\ ( /\ request[c] # None
             /\ request[c][1].op \in {"search", "searchAndExtract"}
             /\ Trim(request[c][1].params.query) = <<>> )
           => /\ RejectedWith(c, "ValidationError")
              /\ FetchCount(c) = 0
        /\ \A i \in 1..Len(fetchCalls[c]) :
              fetchCalls[c][i].endpoint \in {SEARCH_ENDPOINT, SEARCH_AND_EXTRACT_ENDPOINT}
              => fetchCalls[c][i].body.query # <<>>

\* C10 (as claimed): on a client constructed with timeout 0 no attempt is
\* aborted by the timer and no call rejects with TimeoutError.
C10_Claim ==
    options.timeout = Some(0) =>
        \A c \in CallIds : abortedAt[c] = 0 /\ ~RejectedWith(c, "TimeoutError")

\* ------------------------------------------------------------------------
\* Rate-limit information

RateLimitFields == {"limit", "remaining", "reset"}

\* the number a header value of the model denotes
HeaderNumber(h) ==
    CASE h = <<"0">> -> 0
      [] h = <<"6", "0">> -> 60
      [] h = <<"1", "5", "0">> -> 150
      [] h = <<"2", "0", "0">> -> 200
      [] h = <<"1", "7", "0", "0">> -> 1700

\* the step in which call c processes a response
ResponseProcessed(c) == pc[c] = "fetch" /\ pc'[c] \in {"json", "errorJson"}

C12_FieldsChangeOnlyWithHeader ==
    /\ \A f \in RateLimitFields : rateLimitInfo[f] = None
    /\ [][ \A f \in RateLimitFields :
             /\ rateLimitInfo'[f] # rateLimitInfo[f]
                => \E c \in CallIds : ResponseProcessed(c) /\ response'[c].headers[f] # None
             /\ \A c \in CallIds :
                  (ResponseProcessed(c) /\ response'[c].headers[f] = None)
                  => rateLimitInfo'[f] = rateLimitInfo[f]
             /\ rateLimitInfo[f] # None => rateLimitInfo'[f] # None ]_vars

\* C12 witness: a response carrying only X-RateLimit-Remaining: 0 has been
\* processed after one that set limit to 200; limit is still 200.
C12_Witness ==
    \E c \in CallIds :
        /\ pc[c] \in {"json", "errorJson"}
        /\ response[c].headers = [limit |-> None, remaining |-> Some(<<"0">>), reset |-> None]
        /\ rateLimitInfo = [limit |-> Some(200), remaining |-> Some(0), reset |-> Some(1700)]

\* the steps of call c that are not a completed exchange
AttemptFails(c) == pc[c] = "fetch" /\ pc'[c] \in {"backoff", "done"}
BackoffEnds(c) == pc[c] = "backoff" /\ pc'[c] = "fetch"
ValidationRejects(c) == pc[c] = "idle" /\ pc'[c] = "done"

\* C13: a step in which an attempt ends in a transport failure or in a
\* timeout abort, a step that ends a backoff wait, and a step in which a
\* call is rejected by validation leave rateLimitInfo unchanged.
C13_OnlyExchangesWrite ==
    [][ \A c \in CallIds :
          (AttemptFails(c) \/ BackoffEnds(c) \/ ValidationRejects(c))
          => rateLimitInfo' = rateLimitInfo ]_vars

\* C13 witness: the first attempt of a call has failed at the transport
\* level and the call waits to retry, on a client whose rateLimitInfo was
\* set by an earlier call.
C13_Witness ==
    /\ pc[1] = "backoff"
    /\ transportFailures[1] = 1
    /\ responsesReceived[1] = 0
    /\ rateLimitInfo = [limit |-> Some(200), remaining |-> Some(0), reset |-> Some(1700)]

\* C14: with calls in flight concurrently, at every moment (in particular
\* once all have settled) each field of rateLimitInfo is the number carried
\* by the response processed last among those that carried the header of the
\* field, and null when no response carried it.
C14_LastProcessedWins ==
    \A f \in RateLimitFields :
        rateLimitInfo[f] = IF lastCarried[f] = None THEN None
                           ELSE Some(HeaderNumber(lastCarried[f][1]))

\* C14 witness: two calls have settled after one attempt each, call 1 with a
\* response carrying remaining 150 and call 2 with one carrying remaining 0;
\* the response of call 1 was processed last.
C14_Witness ==
    /\ Settled(1) /\ Settled(2)
    /\ FetchCount(1) = 1 /\ FetchCount(2) = 1
    /\ response[1].headers.remaining = Some(<<"1", "5", "0">>)
    /\ response[2].headers.remaining = Some(<<"0">>)
    /\ rateLimitInfo.remaining = Some(150)

\* everything a call owns
CallState(c) ==
    <<pc[c], request[c], args[c], retryCount[c], timeoutId[c], latency[c], response[c],
      outcome[c], fetchCalls[c], transportFailures[c], responsesReceived[c],
      errorResponseAt[c], abortedAt[c], waited[c]>>

\* C15: a step of one call (a timeout, a transport failure, a retry, an HTTP
\* error included) changes nothing another call owns, neither its outcome
\* nor its fetch invocations; and a call never makes more than
\* this.maxRetries + 1 fetch invocations.
C15_CallsAreIndependent ==
    /\ [][ \A c \in CallIds : \A d \in CallIds \ {c} :
             CallState(c)' # CallState(c) => CallState(d)' = CallState(d) ]_vars
    /\ [](\A c \in CallIds : FetchCount(c) <= maxRetries + 1)

\* C15 witness: call 1 has timed out on its first attempt while call 2,
\* after a transport failure, has resolved on its second attempt.
C15_Witness ==
    /\ RejectedWith(1, "TimeoutError") /\ FetchCount(1) = 1
    /\ Settled(2) /\ outcome[2].state = "resolved"
    /\ transportFailures[2] = 1 /\ FetchCount(2) = 2

\* ------------------------------------------------------------------------
\* Error classification

\* C16 (as claimed): a call whose last response was non-2xx has rejected
\* with the class of the status (401, 403, 422, 429, or APIError for any
\* other), the statusCode of the error is the status of the response, and
\* a ValidationError carries the details of the body, the empty list when
\* the body has none.
C16_Claim ==
    \A c \in CallIds :
        ( /\ Settled(c)
          /\ response[c].status # 0
          /\ ~ResponseOk(response[c].status) )
        => /\ RejectedWith(c, ExpectedErrorName(response[c].status))
           /\ outcome[c].error.statusCode = response[c].status
           /\ outcome[c].error.details =
                 IF response[c].status = 422 THEN response[c].body.details ELSE <<>>

C18_Claim ==
    \A c \in CallIds : \A i \in 1..Len(fetchCalls[c]) :
        ( /\ request[c] # None
          /\ request[c][1].op \in {"extract", "searchAndExtract"}
          /\ request[c][1].params.commentFilterConfig # None )
        => /\ "comment_filter_config" \in DOMAIN fetchCalls[c][i].body
           /\ fetchCalls[c][i].body.comment_filter_config
                 = request[c][1].params.commentFilterConfig[1]

\* the SearchResult the specification derives from an element of the array
ExpectedSearchResult(apiResult) ==
    [apiResult EXCEPT !.imageUrl = IF @ = None THEN Some("") ELSE @]

\* C19 (as claimed): a search call that resolved on a 200 whose body is a
\* JSON array of n elements returned a list of n results in the same
\* order, each the element with imageUrl "" when the element had none.
C19_Claim ==
    \A c \in CallIds :
        ( /\ Settled(c)
          /\ outcome[c].state = "resolved"
          /\ request[c][1].op = "search"
          /\ response[c].status = 200
          /\ response[c].body.kind = "array" )
        => /\ outcome[c].value.kind = "array"
           /\ Len(outcome[c].value.items) = Len(response[c].body.items)
           /\ \A i \in 1..Len(response[c].body.items) :
                 /\ outcome[c].value.items[i] = ExpectedSearchResult(response[c].body.items[i])
                 /\ outcome[c].value.items[i].imageUrl # None

\* ------------------------------------------------------------------------
\* Type guards

HasKey(key) == raw.kind = "object" /\ key \in raw.keys

\* C20 (as claimed): for an object with subredditName isRedditPost answers
\* true and isTiktokPost false; for null, undefined and primitives both
\* answer false; no value makes both answer true.
C20_Claim ==
    /\ HasKey("subredditName")
       => /\ verdict.reddit \in {"", "true"}
          /\ verdict.tiktok \in {"", "false"}
    /\ raw.kind # "object" => verdict.reddit \in {"", "false"} /\ verdict.tiktok \in {"", "false"}
    /\ ~(verdict.reddit = "true" /\ verdict.tiktok = "true")

\* C20 (amended): for an object with subredditName isRedditPost answers
\* true, and isTiktokPost answers true exactly when the object also has
\* both username and id; for null, undefined and primitives both answer
\* false, neither throws; both answer true exactly for the objects that
\* have subredditName, username and id.
C20_Amended ==
    /\ HasKey("subredditName")
       => /\ verdict.reddit \in {"", "true"}
          /\ verdict.tiktok \in {"", IF HasKey("username") /\ HasKey("id") THEN "true" ELSE "false"}
    /\ raw.kind # "object" => verdict.reddit \in {"", "false"} /\ verdict.tiktok \in {"", "false"}
    /\ (verdict.reddit = "true" /\ verdict.tiktok = "true")
       <=> /\ HasKey("subredditName") /\ HasKey("username") /\ HasKey("id")
           /\ verdict.reddit # "" /\ verdict.tiktok # ""
    /\ verdict.reddit # "throws" /\ verdict.tiktok # "throws"

\* C20 witness: both guards were applied to an object with subredditName and
\* id but no username: isRedditPost true, isTiktokPost false.
C20_Witness ==
    /\ raw = RawValue("object", FALSE, {"subredditName", "id"})
    /\ verdict = [reddit |-> "true", tiktok |-> "false"]

\* ------------------------------------------------------------------------
\* Construction

\* the credential rule of the specification: not empty, and the first three
\* characters are s, k, _
WellFormedKey(key) ==
    /\ Len(key) >= 3
    /\ key[1] = "s" /\ key[2] = "k" /\ key[3] = "_"

\* C25: once the constructor has run, it has thrown exactly when the API key
\* is empty or does not begin with sk_; no fetch invocation was made; and a
\* constructed client has the three fields of rateLimitInfo null.
C25_ConstructionChecksKey ==
    construction # "pending"
    => /\ construction = "constructed" <=> WellFormedKey(apiKey)
       /\ \A c \in CallIds : fetchCalls[c] = <<>>
       /\ construction = "constructed"
          => rateLimitInfo = [limit |-> None, remaining |-> None, reset |-> None]

\* C25 witness: the shortest well-formed key, sk_, has constructed a client.
C25_Witness ==
    /\ apiKey = <<"s", "k", "_">>
    /\ construction = "constructed"
    /\ rateLimitInfo.limit = None

\* ------------------------------------------------------------------------
\* Request validation

\* a call got past validation / was stopped by it
Accepted(c) == FetchCount(c) > 0
RejectedByValidation(c) == RejectedWith(c, "ValidationError") /\ FetchCount(c) = 0

\* the absolute URLs among the inputs of the model
AbsoluteUrls == {GoodUrl, OtherUrl}

\* C21: an extract call is accepted exactly when its URL list has between 1
\* and 100 elements, all of them absolute URLs (the response mode being
\* valid); any other list is rejected with ValidationError before any fetch
\* invocation.
C21_UrlListRule ==
    \A c \in CallIds :
        (request[c] # None /\ request[c][1].op = "extract")
        => LET urls == request[c][1].params.urls
               wellFormed == /\ Len(urls) >= 1
                             /\ Len(urls) <= 100
                             /\ \A i \in 1..Len(urls) : urls[i] \in AbsoluteUrls
           IN /\ ~wellFormed => RejectedByValidation(c)
              /\ (wellFormed /\ request[c][1].params.responseMode # Some("xml")) => Accepted(c)

\* C21 witness: a list of exactly 100 absolute URLs has been sent to fetch.
C21_Witness ==
    /\ request[1] # None
    /\ request[1][1].op = "extract"
    /\ Len(request[1][1].params.urls) = 100
    /\ FetchCount(1) = 1
    /\ Len(fetchCalls[1][1].body.urls) = 100

\* the fields of a request that break a rule of section 3 of the
\* specification
ViolatedFields(r) ==
    IF r.op = "extract"
    THEN {f \in {"urls"} : \/ Len(r.params.urls) < 1
                           \/ Len(r.params.urls) > 100
                           \/ \E i \in 1..Len(r.params.urls) : r.params.urls[i] \notin AbsoluteUrls}
         \cup {f \in {"responseMode"} : r.params.responseMode = Some("xml")}
    ELSE {f \in {"socialPlatforms"} : r.params.socialPlatforms = <<>>}
         \cup {f \in {"query"} : Trim(r.params.query) = <<>>}
         \cup {f \in {"results"} : r.params.results < 1 \/ r.params.results > 100}
         \cup {f \in {"page"} : r.params.page < 1}
         \cup {f \in {"responseMode"} : r.op = "searchAndExtract" /\ r.params.responseMode = Some("xml")}

\* C22 (as claimed): a call whose request violates the rules of some fields
\* is rejected with a ValidationError whose details hold at least one entry
\* for each violated field.
C22_Claim ==
    \A c \in CallIds :
        request[c] # None
        => \A f \in ViolatedFields(request[c][1]) :
              /\ RejectedWith(c, "ValidationError")
              /\ \E j \in 1..Len(outcome[c].error.details) :
                    outcome[c].error.details[j].field[1] = f

\* C23: a search or searchAndExtract call whose result count is outside
\* 1..100 or whose page is below 1 is rejected with ValidationError, the
\* details naming the field; with a result count in 1..100, a page of at
\* least 1 and the other fields valid, the call is accepted.
C23_ResultsAndPageRule ==
    \A c \in CallIds :
        (request[c] # None /\ request[c][1].op \in {"search", "searchAndExtract"})
        => LET p == request[c][1].params
               resultsOk == p.results >= 1 /\ p.results <= 100
               pageOk == p.page >= 1
           IN /\ ~resultsOk
                 => /\ RejectedByValidation(c)
                    /\ \E j \in 1..Len(outcome[c].error.details) :
                          outcome[c].error.details[j].field = <<"results">>
              /\ ~pageOk
                 => /\ RejectedByValidation(c)
                    /\ \E j \in 1..Len(outcome[c].error.details) :
                          outcome[c].error.details[j].field = <<"page">>
              /\ (resultsOk /\ pageOk /\ p.socialPlatforms # <<>> /\ Trim(p.query) # <<>>)
                 => Accepted(c)

\* C23 witness: a search for 100 results on page 1 has been sent to fetch.
C23_Witness ==
    /\ request[1] # None
    /\ request[1][1].op = "search"
    /\ request[1][1].params.results = 100
    /\ request[1][1].params.page = 1
    /\ FetchCount(1) = 1
    /\ fetchCalls[1][1].body.results = 100

CamelCaseKeys == {"socialPlatforms", "includeComments", "responseMode", "commentFilterConfig"}

\* C24: every body passed to fetch has the underscore-separated keys and no
\* in-memory key: for search social_platforms, the trimmed query, results
\* and page; for extract urls, include_comments and response_mode, the last
\* two being false and "raw" when the caller omitted them.
C24_WireKeys ==
    \A c \in CallIds : \A i \in 1..Len(fetchCalls[c]) :
        LET b == fetchCalls[c][i].body
            op == request[c][1].op
            p == request[c][1].params
        IN /\ DOMAIN b \cap CamelCaseKeys = {}
           /\ op \in {"search", "searchAndExtract"}
              => /\ {"social_platforms", "query", "results", "page"} \subseteq DOMAIN b
                 /\ b.social_platforms = p.socialPlatforms
                 /\ b.query = Trim(p.query)
                 /\ b.results = p.results
                 /\ b.page = p.page
           /\ op \in {"extract", "searchAndExtract"}
              => /\ {"include_comments", "response_mode"} \subseteq DOMAIN b
                 /\ b.include_comments = (IF p.includeComments = None THEN FALSE
                                          ELSE p.includeComments[1])
                 /\ b.response_mode = (IF p.responseMode = None THEN "raw"
                                       ELSE p.responseMode[1])
           /\ op = "extract"
              => "urls" \in DOMAIN b /\ b.urls = p.urls

\* C24 witness: an extract call that omitted includeComments and
\* responseMode has sent include_comments false and response_mode "raw".
C24_Witness ==
    /\ request[1] # None
    /\ request[1][1].op = "extract"
    /\ request[1][1].params.includeComments = None
    /\ request[1][1].params.responseMode = None
    /\ FetchCount(1) = 1
    /\ fetchCalls[1][1].body.include_comments = FALSE
    /\ fetchCalls[1][1].body.response_mode = "raw"

\* ------------------------------------------------------------------------
\* Timeout, backoff and attempts

\* C26 (as claimed): with a positive timeout configured, every call that
\* has been made eventually settles, even when the server stops sending
\* after the response headers: the attempt is aborted when the timeout
\* elapses.
C26_Claim ==
    \A c \in OneCall : (request[c] # None) ~> Settled(c)

\* the retry delay the options configure
ConfiguredRetryDelay ==
    IF options.retryDelay = None THEN DEFAULT_RETRY_DELAY ELSE options.retryDelay[1]

\* 1 + 2 + ... + n
Triangular(n) == (n * (n + 1)) \div 2

\* C27 (as claimed): for every configured retryDelay >= 0, a call that has
\* made k retries has waited retryDelay * (1 + ... + k) in all, and nothing
\* after its final failed attempt.
C27_Claim ==
    \A c \in CallIds :
        waited[c] = ConfiguredRetryDelay * Triangular(retryCount[c])

\* C28 (as claimed): a step that issues a further attempt of a call is taken
\* at the end of a backoff wait, after every earlier attempt failed at the
\* transport level; it adds one to the attempt counter, arms one fetch and
\* sends the request of the first attempt again.
C28_Claim ==
    [][\A c \in CallIds :
         (Len(fetchCalls'[c]) > Len(fetchCalls[c]) /\ Len(fetchCalls[c]) >= 1)
         => /\ pc[c] = "backoff"
            /\ Len(fetchCalls'[c]) = Len(fetchCalls[c]) + 1
            /\ retryCount'[c] = retryCount[c] + 1
            /\ fetchCalls'[c][Len(fetchCalls'[c])] = fetchCalls[c][1]
            /\ responsesReceived[c] = 0
            /\ transportFailures[c] = Len(fetchCalls[c])]_vars

\* the triple of numbers a response with the three headers carries
TripleOf(headers) == [f \in RateLimitFields |-> Some(HeaderNumber(headers[f][1]))]

\* C29: when every response carries the three headers, rateLimitInfo is at
\* every moment either all-null or the triple of one single response, under
\* every interleaving of two concurrent calls.
C29_UpdateIsAtomic ==
    rateLimitInfo \in {NoRateLimitInfo} \cup { TripleOf(h) : h \in AtomicHeaders }

\* C29 witness: call 1 is suspended in the read of the body of its response
\* while call 2 has processed a response with other header values.
C29_Witness ==
    /\ pc[1] \in {"json", "errorJson"}
    /\ pc[2] \in {"json", "errorJson"}
    /\ response[1].headers # response[2].headers
    /\ rateLimitInfo = TripleOf(response[2].headers)

\* C30: the timer of a call is armed exactly while an attempt's fetch is
\* pending, with the configured timeout: none is armed during the body read,
\* the backoff wait or after the call settled; an attempt is started only
\* when no timer is armed, and the timer aborts only the attempt in flight.
C30_TimerLifetime ==
    /\ [](\A c \in CallIds :
            /\ pc[c] # "fetch" => timeoutId[c] = None
            /\ pc[c] = "fetch" => timeoutId[c] = Some(timeout))
    /\ [][\A c \in CallIds :
            /\ Len(fetchCalls'[c]) > Len(fetchCalls[c])
               => timeoutId[c] = None /\ timeoutId'[c] = Some(timeout)
            /\ abortedAt'[c] # abortedAt[c] /\ abortedAt'[c] # 0
               => /\ pc[c] = "fetch"
                  /\ abortedAt'[c] = Len(fetchCalls[c])
                  /\ timeoutId'[c] = None]_vars

\* C30 witness: the first attempt failed at the transport level and the
\* call is in its backoff wait with no timer armed.
C30_Witness ==
    /\ pc[1] = "backoff"
    /\ transportFailures[1] = 1
    /\ FetchCount(1) = 1
    /\ timeoutId[1] = None

====
